---- MODULE Spec2Model ----
(***************************************************************************)
(* The browser client of the ASL sign-to-text demo (hands-client.js, kept  *)
(* in src/unnamed/part_001 lines 110-237): the MediaPipe callback that     *)
(* overwrites the latest landmarks, the 500 ms timer that compares them    *)
(* with the landmarks last sent and posts them to /predict, the pending    *)
(* fetches, and the handler that filters and debounces the predictions     *)
(* into the typed text.  With it, the feature extraction of the training   *)
(* notebooks (normalize_ptp of notebook 03.1, one_image_to_vector of       *)
(* notebook 03.2, kept in src/unnamed/part_002), which turns the 21        *)
(* landmarks of an image into the classifier's feature vector.             *)
(*                                                                         *)
(* Numbers are fixed point: a coordinate is an integer number of           *)
(* hundredths (THRESHOLD 0.01 is 1), a confidence is an integer number of  *)
(* hundredths (CONF_THRESHOLD 0.75 is 75), a time is in milliseconds       *)
(* counted from page load.                                                 *)
(***************************************************************************)
EXTENDS Integers, Sequences, FiniteSets, TLC

\* ------------------------------------------------------------ constants
SEND_EVERY_MS  == 500
THRESHOLD      == 1
CONF_THRESHOLD == 75
DEBOUNCE_MS    == 2000
\* MediaPipe Hands delivers 21 landmarks per hand (63 floats once flattened)
NumPoints      == 21

\* --------------------------------------------------------------- bounds
\* largest coordinate, in hundredths
MaxCoord    == 2
\* number of leading landmarks that vary freely in the gate specification
VaryPoints  == 1
\* most fetches pending at once in an explored behaviour
MaxInflight == 2
\* timer periods explored in Spec
MaxTicks    == 3
\* timer periods explored in SpecDebounce, where the window has to elapse
LongTicks   == 6
\* longest typed text in an explored behaviour
MaxText     == 7
\* the count of fetches started stops here
MaxCount    == 3

\* the clock moves in whole timer periods
TimeStep == SEND_EVERY_MS

\* ------------------------------------------------------------ JS values
\* null for the landmark arrays (an array of landmarks is never empty)
Null      == << >>
\* null for lastAccepted
NullLabel == "<null>"
\* a field missing from the parsed body
Undefined == "<undefined>"
\* a missing confidence
NoConf    == -1
\* the float NaN as a coordinate (no real coordinate is this small)
NaN       == -1000

\* the 28 classes of the classifier (README.md line 14)
Alphabet ==
  { "A", "B", "C", "D", "E", "F", "G", "H", "I", "J", "K", "L", "M",
    "N", "O", "P", "Q", "R", "S", "T", "U", "V", "W", "X", "Y", "Z",
    "space", "del" }

\* the characters of a JS string
Chars(s) ==
  CASE s = ""        -> << >>
    [] s = "nothing" -> << "n", "o", "t", "h", "i", "n", "g" >>
    [] s = "space"   -> << "s", "p", "a", "c", "e" >>
    [] s = "del"     -> << "d", "e", "l" >>
    [] s = Undefined -> << "u", "n", "d", "e", "f", "i", "n", "e", "d" >>
    [] OTHER         -> << s >>

VARIABLES
  lastFrameLandmarks,   \* latest flattened landmarks from MediaPipe, or Null
  lastSentLandmarks,    \* landmarks of the last answered request, or Null
  lastAccepted,         \* last accepted letter, or NullLabel
  lastAcceptTime,       \* Date.now() of the last acceptance
  typed,                \* typed.textContent, a sequence of characters
  inflight,             \* the sendPayload calls awaiting fetch, in dispatch order
  now,                  \* Date.now()
  nextTick,             \* when the setInterval callback fires next
  sentCount,            \* history: number of fetches started, up to MaxCount
  lastCommit,           \* history: label and time of the last appendLetter call
  last,                 \* history: the step just taken and its inputs
  mpResult,             \* the multi-hand landmarks of MediaPipe's latest result
  features              \* the notebook's return value for that result

vars == << lastFrameLandmarks, lastSentLandmarks, lastAccepted, lastAcceptTime,
           typed, inflight, now, nextTick, sentCount, lastCommit, last,
           mpResult, features >>

\* ------------------------------------------------------------- helpers
Point(x, y, z) == [x |-> x, y |-> y, z |-> z]

\* flatten keeping only x and y of each landmark
RECURSIVE flattenXY(_)
flattenXY(lms) ==
  IF lms = << >> THEN << >>
  ELSE << lms[1].x, lms[1].y >> \o flattenXY(Tail(lms))

RECURSIVE flatten(_)
flatten(lms) ==
  IF lms = << >> THEN << >>
  ELSE << lms[1].x, lms[1].y, lms[1].z >> \o flatten(Tail(lms))

Infinity == [inf |-> TRUE, nan |-> FALSE, sum |-> 0, n |-> 1]

\* the for loop of l2: sum of d*d over i = k .. a.length-1
RECURSIVE l2Loop(_, _, _)
l2Loop(a, b, k) ==
  IF k > Len(a) THEN 0
  ELSE (a[k] - b[k]) * (a[k] - b[k]) + l2Loop(a, b, k + 1)

\* a difference with NaN is NaN, and so is every sum it enters
SumIsNaN(a, b) == \E k \in 1 .. Len(a) : a[k] = NaN \/ b[k] = NaN

\* Math.sqrt(sum / a.length), kept exactly as the pair (sum, a.length);
\* the square root of NaN is NaN
l2(a, b) ==
  IF a = Null \/ b = Null \/ Len(a) # Len(b) THEN Infinity
  ELSE IF SumIsNaN(a, b)
       THEN [inf |-> FALSE, nan |-> TRUE, sum |-> 0, n |-> Len(a)]
       ELSE [inf |-> FALSE, nan |-> FALSE, sum |-> l2Loop(a, b, 1),
             n |-> Len(a)]

\* Greater with the comparison written delta >= t
GreaterOrEqual(delta, t) ==
  ~delta.nan /\ (delta.inf \/ delta.sum >= t * t * delta.n)

\* delta > t for delta = sqrt(sum / n): sqrt is monotone, so sum > t*t*n;
\* NaN > t is false
Greater(delta, t) ==
  ~delta.nan /\ (delta.inf \/ delta.sum > t * t * delta.n)

\* TickSends without the early return on missing landmarks
TickSendsNoGuard(frame, sent) == Greater(l2(frame, sent), THRESHOLD)

\* TickSends behind a flag that is set while a fetch is pending and that
\* only its answer clears
TickSendsWhenIdle(frame, sent) ==
  /\ inflight = << >>
  /\ frame # Null
  /\ Greater(l2(frame, sent), THRESHOLD)

\* the decision of the periodic callback: TRUE when it calls sendPayload
TickSends(frame, sent) ==
  /\ frame # Null
  /\ Greater(l2(frame, sent), THRESHOLD)

\* ------------------------------------------------------------ text box
appendLetter(text, letter) ==
  IF letter = "space" THEN Append(text, " ")
  ELSE IF letter = "del" THEN
    (IF text = << >> THEN << >> ELSE SubSeq(text, 1, Len(text) - 1))
  ELSE text \o Chars(letter)

\* ---------------------------------------------------- acceptance gate
Truthy(prediction) == prediction # "" /\ prediction # Undefined

\* ConfOk with the comparison written confidence > CONF_THRESHOLD
ConfOkStrict(confidence) == confidence # NoConf /\ confidence > CONF_THRESHOLD

\* confidence >= CONF_THRESHOLD; undefined >= x is false
ConfOk(confidence) == confidence # NoConf /\ confidence >= CONF_THRESHOLD

\* handlePrediction with the window test written now - lastAcceptTime >= DEBOUNCE_MS
handlePredictionEarly(prediction, confidence, text, accepted, acceptTime, t) ==
  IF ConfOk(confidence) /\ Truthy(prediction)
     /\ (prediction # accepted \/ t - acceptTime >= DEBOUNCE_MS)
  THEN [typed |-> appendLetter(text, prediction),
        lastAccepted |-> prediction, lastAcceptTime |-> t, commit |-> TRUE]
  ELSE [typed |-> text,
        lastAccepted |-> accepted, lastAcceptTime |-> acceptTime, commit |-> FALSE]

\* handlePrediction with a window that holds back every label, not only
\* the last accepted one
handlePredictionAnyLabel(prediction, confidence, text, accepted, acceptTime, t) ==
  IF ConfOk(confidence) /\ Truthy(prediction)
     /\ (accepted = NullLabel \/ t - acceptTime > DEBOUNCE_MS)
  THEN [typed |-> appendLetter(text, prediction),
        lastAccepted |-> prediction, lastAcceptTime |-> t, commit |-> TRUE]
  ELSE [typed |-> text,
        lastAccepted |-> accepted, lastAcceptTime |-> acceptTime, commit |-> FALSE]

\* handlePrediction restarting the window at every rejected repeat
handlePredictionRefresh(prediction, confidence, text, accepted, acceptTime, t) ==
  IF ConfOk(confidence) /\ Truthy(prediction)
     /\ (prediction # accepted \/ t - acceptTime > DEBOUNCE_MS)
  THEN [typed |-> appendLetter(text, prediction),
        lastAccepted |-> prediction, lastAcceptTime |-> t, commit |-> TRUE]
  ELSE IF ConfOk(confidence) /\ Truthy(prediction)
  THEN [typed |-> text,
        lastAccepted |-> accepted, lastAcceptTime |-> t, commit |-> FALSE]
  ELSE [typed |-> text,
        lastAccepted |-> accepted, lastAcceptTime |-> acceptTime, commit |-> FALSE]

\* handlePrediction without the assignment lastAcceptTime = now
handlePredictionKeepsTime(prediction, confidence, text, accepted, acceptTime, t) ==
  IF ConfOk(confidence) /\ Truthy(prediction)
     /\ (prediction # accepted \/ t - acceptTime > DEBOUNCE_MS)
  THEN [typed |-> appendLetter(text, prediction),
        lastAccepted |-> prediction, lastAcceptTime |-> acceptTime, commit |-> TRUE]
  ELSE [typed |-> text,
        lastAccepted |-> accepted, lastAcceptTime |-> acceptTime, commit |-> FALSE]

\* handlePrediction: the new text and acceptance state, and whether
\* appendLetter was called
handlePrediction(prediction, confidence, text, accepted, acceptTime, t) ==
  IF ConfOk(confidence) /\ Truthy(prediction)
     /\ (prediction # accepted \/ t - acceptTime > DEBOUNCE_MS)
  THEN [typed |-> appendLetter(text, prediction),
        lastAccepted |-> prediction, lastAcceptTime |-> t, commit |-> TRUE]
  ELSE [typed |-> text,
        lastAccepted |-> accepted, lastAcceptTime |-> acceptTime, commit |-> FALSE]

\* ------------------------------------------------------------ responses
\* How a pending fetch ends.  error is the ClassifyError it amounts to
\* ("None" for a well formed answer); http is "none" when fetch rejects;
\* json is whether res.json() parses; prediction and confidence are the
\* fields of the parsed body.
Resp(e, h, j, p, c) ==
  [error |-> e, http |-> h, json |-> j, prediction |-> p, confidence |-> c]

Confidences == { CONF_THRESHOLD - 1, CONF_THRESHOLD }

Responses ==
  \* fetch rejects: the network is down, or the browser gives up waiting
  { Resp(e, "none", FALSE, Undefined, NoConf) : e \in { "Network", "Timeout" } }
  \* a 5xx answer: an HTML page, or a JSON error object without the fields
  \cup { Resp("ServerError", "5xx", j, Undefined, NoConf) : j \in BOOLEAN }
  \* a 200 answer that is not JSON, or JSON with a field missing
  \cup { Resp("InvalidResponse", "200", FALSE, Undefined, NoConf),
         Resp("InvalidResponse", "200", TRUE, Undefined, NoConf),
         Resp("InvalidResponse", "200", TRUE, Undefined, CONF_THRESHOLD),
         Resp("InvalidResponse", "200", TRUE, "A", NoConf) }
  \* a 200 answer { prediction, confidence }: a letter, the two control
  \* labels, a label outside the alphabet, an empty label
  \cup { Resp("None", "200", TRUE, p, c) :
           p \in { "A", "nothing" }, c \in Confidences }
  \cup { Resp("None", "200", TRUE, p, CONF_THRESHOLD) :
           p \in { "space", "del", "" } }

\* sendPayloadResume with lastSentLandmarks = flat only after a commit
sendPayloadResumeOnCommit(flat, r, text, accepted, acceptTime, sent, t) ==
  IF r.http # "none" /\ r.json
  THEN LET h == handlePrediction(r.prediction, r.confidence,
                                 text, accepted, acceptTime, t)
       IN [typed |-> h.typed, lastAccepted |-> h.lastAccepted,
           lastAcceptTime |-> h.lastAcceptTime,
           lastSentLandmarks |-> IF h.commit THEN flat ELSE sent,
           gate |-> TRUE, commit |-> h.commit]
  ELSE [typed |-> text, lastAccepted |-> accepted,
        lastAcceptTime |-> acceptTime, lastSentLandmarks |-> sent,
        gate |-> FALSE, commit |-> FALSE]

\* sendPayloadResume with lastSentLandmarks = flat moved after the try block
sendPayloadResumeAlways(flat, r, text, accepted, acceptTime, sent, t) ==
  IF r.http # "none" /\ r.json
  THEN LET h == handlePrediction(r.prediction, r.confidence,
                                 text, accepted, acceptTime, t)
       IN [typed |-> h.typed, lastAccepted |-> h.lastAccepted,
           lastAcceptTime |-> h.lastAcceptTime, lastSentLandmarks |-> flat,
           gate |-> TRUE, commit |-> h.commit]
  ELSE [typed |-> text, lastAccepted |-> accepted,
        lastAcceptTime |-> acceptTime, lastSentLandmarks |-> flat,
        gate |-> FALSE, commit |-> FALSE]

\* sendPayload after the await: the try body when fetch resolves and the
\* body parses, the catch block otherwise
sendPayloadResume(flat, r, text, accepted, acceptTime, sent, t) ==
  IF r.http # "none" /\ r.json
  THEN LET h == handlePrediction(r.prediction, r.confidence,
                                 text, accepted, acceptTime, t)
       IN [typed |-> h.typed, lastAccepted |-> h.lastAccepted,
           lastAcceptTime |-> h.lastAcceptTime, lastSentLandmarks |-> flat,
           gate |-> TRUE, commit |-> h.commit]
  ELSE [typed |-> text, lastAccepted |-> accepted,
        lastAcceptTime |-> acceptTime, lastSentLandmarks |-> sent,
        gate |-> FALSE, commit |-> FALSE]

\* ---------------------------------------------------------------- poses
Coords == 0 .. MaxCoord

\* a hand whose 21 landmarks all sit at (c, c, c)
Uniform(c) == [i \in 1 .. NumPoints |-> Point(c, c, c)]

\* the hands the camera shows in Spec: two that are THRESHOLD + 1 apart
SamplePoses == { Uniform(0), Uniform(THRESHOLD + 1) }

\* ---------------------------------------------------------------- steps
Event(kind) ==
  [kind |-> kind, sent |-> FALSE, error |-> "None",
   prediction |-> Undefined, confidence |-> NoConf,
   gate |-> FALSE, commit |-> FALSE, same |-> FALSE, late |-> FALSE]

\* the value of features while the notebook has not run
NotRun == [error |-> "not_run", vector |-> << >>]

Init ==
  /\ lastFrameLandmarks = Null
  /\ lastSentLandmarks = Null
  /\ lastAccepted = NullLabel
  /\ lastAcceptTime = 0
  /\ typed = << >>
  /\ inflight = << >>
  /\ now = 0
  /\ nextTick = SEND_EVERY_MS
  /\ sentCount = 0
  /\ lastCommit = [label |-> NullLabel, time |-> 0]
  /\ last = Event("init")
  /\ mpResult = << >>
  /\ features = NotRun

\* onResults leaving the landmarks alone when no hand is found
onResultsKeep(hands) ==
  /\ lastFrameLandmarks' = IF Len(hands) > 0 THEN flatten(hands[1])
                           ELSE lastFrameLandmarks
  /\ mpResult' = hands
  /\ last' = Event("onResults")
  /\ UNCHANGED << lastSentLandmarks, lastAccepted, lastAcceptTime, typed,
                  inflight, now, nextTick, sentCount, lastCommit, features >>

\* onResults leaving landmarks that were not sent yet in place
onResultsFirstWins(hands) ==
  /\ lastFrameLandmarks' =
       IF lastFrameLandmarks # Null /\ lastFrameLandmarks # lastSentLandmarks
       THEN lastFrameLandmarks
       ELSE IF Len(hands) > 0 THEN flatten(hands[1]) ELSE Null
  /\ mpResult' = hands
  /\ last' = Event("onResults")
  /\ UNCHANGED << lastSentLandmarks, lastAccepted, lastAcceptTime, typed,
                  inflight, now, nextTick, sentCount, lastCommit, features >>

\* onResults(res) with res.multiHandLandmarks = hands
onResults(hands) ==
  /\ lastFrameLandmarks' = IF Len(hands) > 0 THEN flatten(hands[1]) ELSE Null
  /\ mpResult' = hands
  /\ last' = Event("onResults")
  /\ UNCHANGED << lastSentLandmarks, lastAccepted, lastAcceptTime, typed,
                  inflight, now, nextTick, sentCount, lastCommit, features >>

\* MediaPipe reports no hand, or one hand of poses
CaptureOf(poses) ==
  \E hands \in { << >> } \cup { << p >> : p \in poses } : onResults(hands)

Capture == CaptureOf(SamplePoses)

\* the setInterval callback
Tick ==
  /\ now = nextTick
  /\ nextTick' = nextTick + SEND_EVERY_MS
  /\ LET send == TickSends(lastFrameLandmarks, lastSentLandmarks)
     IN /\ send => Len(inflight) < MaxInflight
        /\ inflight' = IF send
                       THEN Append(inflight, [flat |-> lastFrameLandmarks])
                       ELSE inflight
        /\ sentCount' = IF send /\ sentCount < MaxCount
                        THEN sentCount + 1 ELSE sentCount
        /\ last' = [Event("tick") EXCEPT !.sent = send]
  /\ UNCHANGED << lastFrameLandmarks, lastSentLandmarks, lastAccepted,
                  lastAcceptTime, typed, now, lastCommit, mpResult, features >>

\* the fetch of the i-th pending sendPayload call ends with some r of R
Resolve(R) ==
  \E i \in 1 .. Len(inflight) : \E r \in R :
    LET flat == inflight[i].flat
        s    == sendPayloadResume(flat, r, typed, lastAccepted, lastAcceptTime,
                                  lastSentLandmarks, now)
    IN /\ Len(s.typed) <= MaxText
       /\ typed' = s.typed
       /\ lastAccepted' = s.lastAccepted
       /\ lastAcceptTime' = s.lastAcceptTime
       /\ lastSentLandmarks' = s.lastSentLandmarks
       /\ inflight' = SubSeq(inflight, 1, i - 1)
                        \o SubSeq(inflight, i + 1, Len(inflight))
       /\ lastCommit' = IF s.commit
                        THEN [label |-> r.prediction, time |-> now]
                        ELSE lastCommit
       /\ last' = [Event("response") EXCEPT
                     !.error = r.error,
                     !.prediction = r.prediction, !.confidence = r.confidence,
                     !.gate = s.gate, !.commit = s.commit,
                     !.same = (r.prediction = lastAccepted),
                     !.late = (now - lastAcceptTime > DEBOUNCE_MS)]
       /\ UNCHANGED << lastFrameLandmarks, now, nextTick, sentCount,
                       mpResult, features >>

\* time passes, for at most ticks timer periods; the timer callback runs
\* when it is due
Elapse(ticks) ==
  /\ now < nextTick
  /\ now + TimeStep <= ticks * SEND_EVERY_MS
  /\ now' = now + TimeStep
  /\ last' = Event("elapse")
  /\ UNCHANGED << lastFrameLandmarks, lastSentLandmarks, lastAccepted,
                  lastAcceptTime, typed, inflight, nextTick, sentCount,
                  lastCommit, mpResult, features >>

Next == Capture \/ Tick \/ Resolve(Responses) \/ Elapse(MaxTicks)

Spec == Init /\ [][Next]_vars

\* The same client over more timer periods, with the answers narrowed to
\* a letter, confident or not, a confident control label and a network
\* failure.
DebounceResponses ==
  { r \in Responses : \/ r.error = "Network"
                      \/ /\ r.error = "None"
                         /\ r.prediction \in { "A", "space" }
                         /\ r.confidence = CONF_THRESHOLD
                      \/ /\ r.error = "None"
                         /\ r.prediction = "A"
                         /\ r.confidence < CONF_THRESHOLD }

NextDebounce ==
  Capture \/ Tick \/ Resolve(DebounceResponses) \/ Elapse(LongTicks)

SpecDebounce == Init /\ [][NextDebounce]_vars

\* The periodic decision alone, over many pairs of vectors: the page is one
\* timer period old, the camera shows any hand of GatePoses (or none) and the
\* landmarks last sent are absent or those of a uniform hand.
Points == { Point(x, y, z) : x \in Coords, y \in Coords, z \in Coords }

GatePoses ==
  { [i \in 1 .. NumPoints |-> IF i <= VaryPoints THEN f[i] ELSE Point(c, c, c)] :
      f \in [1 .. VaryPoints -> Points], c \in Coords }

InitGate ==
  /\ mpResult \in { << >> } \cup { << p >> : p \in GatePoses }
  /\ lastFrameLandmarks =
       IF Len(mpResult) > 0 THEN flatten(mpResult[1]) ELSE Null
  /\ lastSentLandmarks \in { Null } \cup { flatten(Uniform(c)) : c \in Coords }
  /\ lastAccepted = NullLabel
  /\ lastAcceptTime = 0
  /\ typed = << >>
  /\ inflight = << >>
  /\ now = SEND_EVERY_MS
  /\ nextTick = 2 * SEND_EVERY_MS
  /\ sentCount = IF lastSentLandmarks = Null THEN 0 ELSE 1
  /\ lastCommit = [label |-> NullLabel, time |-> 0]
  /\ last = Event("init")
  /\ features = NotRun

NextGate == Tick \/ Elapse(2)

SpecGate == InitGate /\ [][NextGate]_vars

\* The end-to-end scenario: the camera holds one hand still for the first
\* three timer periods and shows a hand more than THRESHOLD away for the
\* fourth; every request is answered well formed, after any delay.
ticksDone == (nextTick \div SEND_EVERY_MS) - 1

StableHand == Uniform(0)
MovedHand  == Uniform(THRESHOLD + 1)

E2ECapture ==
  \/ ticksDone < 3 /\ onResults(<< StableHand >>)
  \/ ticksDone = 3 /\ onResults(<< MovedHand >>)

E2ETick ==
  /\ ticksDone < 4
  /\ lastFrameLandmarks =
       flatten(IF ticksDone < 3 THEN StableHand ELSE MovedHand)
  /\ Tick

E2EResponses == { r \in Responses : r.error = "None" }

NextE2E == E2ECapture \/ E2ETick \/ Resolve(E2EResponses) \/ Elapse(4)

SpecE2E == Init /\ [][NextE2E]_vars

\* The client in front of a camera that also delivers a hand with a
\* non-finite coordinate, with the answers narrowed to a confident letter
\* and a network failure.
NaNHand ==
  [i \in 1 .. NumPoints |->
     IF i = NumPoints THEN Point(NaN, 0, 0) ELSE Point(0, 0, 0)]

PosePoses == SamplePoses \cup { NaNHand }

PoseResponses ==
  { r \in Responses : \/ r.error = "Network"
                      \/ /\ r.error = "None"
                         /\ r.prediction = "A"
                         /\ r.confidence = CONF_THRESHOLD }

NextPose ==
  CaptureOf(PosePoses) \/ Tick \/ Resolve(PoseResponses) \/ Elapse(MaxTicks)

SpecPose == Init /\ [][NextPose]_vars

\* ------------------------------------------------- feature extraction
\* The notebooks' normalisation.  A quotient is kept exactly: the element
\* [num, den, root] stands for num / den, or for sqrt(num) / den when root
\* is TRUE (a distance); float32 rounding is not modelled.
Axes == << "x", "y", "z" >>

\* lm with no point subtracted
centreNone(lm) == lm

\* lm - lm[0]: the wrist moves to the origin
centre(lm) ==
  [i \in 1 .. Len(lm) |->
     Point(lm[i].x - lm[1].x, lm[i].y - lm[1].y, lm[i].z - lm[1].z)]

\* np.ptp(lm, axis=0), for one column
ptp(lm, axis) ==
  LET col == { lm[i][axis] : i \in 1 .. Len(lm) }
  IN (CHOOSE m \in col : \A e \in col : e <= m)
       - (CHOOSE m \in col : \A e \in col : m <= e)

\* np.max over the three columns
npmax(lm) ==
  LET ranges == { ptp(lm, Axes[a]) : a \in 1 .. 3 }
  IN CHOOSE m \in ranges : \A e \in ranges : e <= m

\* scale without the fallback "or 1.0"
scaleUnguarded(lm) == npmax(lm)

\* np.max(np.ptp(lm, axis=0)) or 1.0
scale(lm) == IF npmax(lm) = 0 THEN 1 ELSE npmax(lm)

Quot(num, den) == [num |-> num, den |-> den, root |-> FALSE]

\* (rows / den).flatten(): row after row, x then y then z
ravel(rows, den) ==
  [k \in 1 .. 3 * Len(rows) |->
     Quot(rows[((k - 1) \div 3) + 1][Axes[((k - 1) % 3) + 1]], den)]

\* notebook 03.1
normalize_ptp(lm) ==
  LET centred  == centre(lm)
      filtered == Tail(centred)
  IN ravel(filtered, scale(centred))

\* zero-based indices of the finger tips
tip_ids == << 4, 8, 12, 16, 20 >>

\* np.linalg.norm of a row already divided by den
norm(row, den) ==
  [num |-> row.x * row.x + row.y * row.y + row.z * row.z,
   den |-> den, root |-> TRUE]

\* notebook 03.2: the second component of one_image_to_vector's result for
\* an image in folder label, readable or not, in which MediaPipe finds
\* hands
one_image_to_vector(label, readable, hands) ==
  IF label = "nothing" THEN [error |-> "class_nothing", vector |-> << >>]
  ELSE IF ~readable THEN [error |-> "corrupt_image", vector |-> << >>]
  ELSE IF Len(hands) = 0 THEN [error |-> "no_hand", vector |-> << >>]
  ELSE LET lm    == centre(hands[1])
           den   == scale(lm)
           vec60 == ravel(Tail(lm), den)
           dists == [j \in 1 .. Len(tip_ids) |-> norm(lm[tip_ids[j] + 1], den)]
       IN [error |-> "none", vector |-> vec60 \o dists]

\* the hands the notebooks see: the wrist anywhere, the other landmarks
\* alternating between a point and its rotation
NormPoses ==
  { [i \in 1 .. NumPoints |->
       IF i = 1 THEN w
       ELSE IF i % 2 = 0 THEN a ELSE Point(a.z, a.x, a.y)] :
      w \in Points, a \in Points }

InitNorm ==
  /\ mpResult \in { << >> } \cup { << p >> : p \in NormPoses }
  /\ features = NotRun
  /\ lastFrameLandmarks = Null
  /\ lastSentLandmarks = Null
  /\ lastAccepted = NullLabel
  /\ lastAcceptTime = 0
  /\ typed = << >>
  /\ inflight = << >>
  /\ now = 0
  /\ nextTick = SEND_EVERY_MS
  /\ sentCount = 0
  /\ lastCommit = [label |-> NullLabel, time |-> 0]
  /\ last = Event("init")

\* notebook 03.1: get_landmarks, then normalize_ptp unless it returned None
Normalise ==
  /\ features = NotRun
  /\ features' = IF Len(mpResult) = 0
                 THEN [error |-> "skip", vector |-> << >>]
                 ELSE [error |-> "none", vector |-> normalize_ptp(mpResult[1])]
  /\ last' = Event("normalize_ptp")
  /\ UNCHANGED << lastFrameLandmarks, lastSentLandmarks, lastAccepted,
                  lastAcceptTime, typed, inflight, now, nextTick, sentCount,
                  lastCommit, mpResult >>

\* notebook 03.2: one_image_to_vector on an image of some class folder
Vectorise ==
  /\ features = NotRun
  /\ \E label \in { "A", "nothing" } : \E readable \in BOOLEAN :
       features' = one_image_to_vector(label, readable, mpResult)
  /\ last' = Event("one_image_to_vector")
  /\ UNCHANGED << lastFrameLandmarks, lastSentLandmarks, lastAccepted,
                  lastAcceptTime, typed, inflight, now, nextTick, sentCount,
                  lastCommit, mpResult >>

NextNorm == Normalise \/ Vectorise

SpecNorm == InitNorm /\ [][NextNorm]_vars

\* ================================================================ claims

\* C1: at every reachable state at most one classification request is
\* outstanding; a tick that fires while a request is pending sends nothing.
C1_AtMostOneOutstanding == Len(inflight) <= 1

\* ------------------------------------------------------------------ C2
\* the squared Euclidean distance, summed from the last element down
RECURSIVE SqDist(_, _)
SqDist(a, b) ==
  IF a = << >> THEN 0
  ELSE SqDist(SubSeq(a, 1, Len(a) - 1), SubSeq(b, 1, Len(b) - 1))
         + (a[Len(a)] - b[Len(b)]) ^ 2

\* sqrt(SqDist / n) > THRESHOLD, squared on both sides
FartherThanThreshold(a, b) == SqDist(a, b) > THRESHOLD ^ 2 * Len(a)
AtThreshold(a, b)          == SqDist(a, b) = THRESHOLD ^ 2 * Len(a)

\* C2: a tick that finds landmarks present sends them when nothing was sent
\* before, and otherwise exactly when their length-normalised L2 distance
\* from the landmarks last sent is strictly greater than THRESHOLD.
\* (SpecGate starts with nothing pending, so a tick that sends leaves
\* exactly its own request pending and one that does not leaves none.)
C2_StabilityDecision ==
  (last.kind = "tick" /\ lastFrameLandmarks # Null) =>
    /\ last.sent <=> \/ lastSentLandmarks = Null
                     \/ FartherThanThreshold(lastFrameLandmarks, lastSentLandmarks)
    /\ last.sent => /\ inflight # << >>
                    /\ inflight[Len(inflight)].flat = lastFrameLandmarks
    /\ ~last.sent => inflight = << >>

\* a tick found the hand exactly THRESHOLD away from the one last sent,
\* though not the same, and sent nothing
C2_Witness ==
  /\ last.kind = "tick"
  /\ lastFrameLandmarks # Null
  /\ lastSentLandmarks # Null
  /\ lastFrameLandmarks # lastSentLandmarks
  /\ AtThreshold(lastFrameLandmarks, lastSentLandmarks)
  /\ ~last.sent
  /\ inflight = << >>

\* ------------------------------------------------------------------ C3
\* C3: no answer whose confidence is below CONF_THRESHOLD or whose label is
\* empty changes the text or the acceptance state, and an answer with
\* confidence exactly CONF_THRESHOLD and a label is committed unless it
\* repeats the last accepted label within the debounce window.
C3_ConfidenceRule ==
  [][last'.kind = "response" =>
       /\ (\/ last'.confidence < CONF_THRESHOLD
           \/ last'.prediction \in { "", Undefined })
            => /\ ~last'.commit
               /\ UNCHANGED << typed, lastAccepted, lastAcceptTime >>
       /\ (/\ last'.gate
           /\ last'.confidence = CONF_THRESHOLD
           /\ last'.prediction \notin { "", Undefined }
           /\ ~(/\ last'.prediction = lastAccepted
                /\ now - lastAcceptTime <= DEBOUNCE_MS))
            => /\ last'.commit
               /\ lastAccepted' = last'.prediction]_vars

\* an answer with confidence exactly CONF_THRESHOLD was committed
C3_Witness ==
  /\ last.kind = "response"
  /\ last.confidence = CONF_THRESHOLD
  /\ last.commit
  /\ lastAccepted = last.prediction
  /\ typed # << >>

\* ------------------------------------------------------------------ C4
\* C4: an answer whose label is not one of the 28 symbols never changes the
\* text and never becomes the last accepted label.
C4_UnknownLabelRejected ==
  [][(last'.kind = "response" /\ last'.prediction \notin Alphabet) =>
       /\ typed' = typed
       /\ lastAccepted' = lastAccepted
       /\ lastAccepted' # last'.prediction]_vars

\* ------------------------------------------------------------------ C5
\* C5: a confident, labelled answer that repeats the last accepted label is
\* dropped when at most DEBOUNCE_MS have passed since that acceptance, and
\* committed when more have.
C5_Debounce ==
  [][(/\ last'.kind = "response"
      /\ last'.gate
      /\ last'.confidence >= CONF_THRESHOLD
      /\ last'.prediction \notin { "", Undefined }
      /\ last'.prediction = lastAccepted) =>
       IF now - lastAcceptTime <= DEBOUNCE_MS
       THEN /\ ~last'.commit
            /\ UNCHANGED << typed, lastAccepted, lastAcceptTime >>
       ELSE /\ last'.commit
            /\ Len(typed') = Len(typed) + 1
            /\ lastAccepted' = lastAccepted
            /\ lastAcceptTime' = now]_vars

\* the last accepted label came again after the window and was committed
C5_Witness ==
  /\ last.kind = "response"
  /\ last.same
  /\ last.late
  /\ last.commit
  /\ lastAcceptTime = now
  /\ Len(typed) >= 2

\* ------------------------------------------------------------------ C6
\* C6: the acceptance state is always the label and time of the most recent
\* commit, and a commit sets both to the committed label and the current
\* time.
C6_AcceptanceState ==
  /\ lastAccepted = lastCommit.label
  /\ lastAcceptTime = lastCommit.time
  /\ (last.kind = "response" /\ last.commit) =>
       /\ lastAccepted = last.prediction
       /\ lastAcceptTime = now

\* a second, later commit has replaced the label and the time of the first
C6_Witness ==
  /\ last.kind = "response"
  /\ last.commit
  /\ lastAccepted = "space"
  /\ typed = << "A", " " >>
  /\ lastAcceptTime = now
  /\ now > SEND_EVERY_MS

\* ------------------------------------------------------------------ C7
\* C7: when a request ends in a Network, Timeout, InvalidResponse or
\* ServerError failure, handlePrediction is not called and the acceptance
\* state and the text are unchanged.
C7_ErrorSkipsGate ==
  [][(last'.kind = "response" /\ last'.error # "None") =>
       /\ ~last'.gate
       /\ UNCHANGED << typed, lastAccepted, lastAcceptTime >>]_vars

\* ------------------------------------------------------------------ C8
\* C8: the landmarks last sent change only when a pending request is
\* answered, and then to the landmarks of that request; the periodic
\* decision never changes them, and a request whose fetch fails leaves
\* them as they were.
C8_LastSentFrame ==
  [][/\ lastSentLandmarks' # lastSentLandmarks =>
          /\ last'.kind = "response"
          /\ \E i \in 1 .. Len(inflight) :
               /\ inflight[i].flat = lastSentLandmarks'
               /\ inflight' = SubSeq(inflight, 1, i - 1)
                                \o SubSeq(inflight, i + 1, Len(inflight))
     /\ last'.kind = "tick" => lastSentLandmarks' = lastSentLandmarks
     /\ (last'.kind = "response" /\ last'.error \in { "Network", "Timeout" })
          => lastSentLandmarks' = lastSentLandmarks]_vars

\* a request was sent, its fetch failed, and nothing counts as sent
C8_Witness ==
  /\ last.kind = "response"
  /\ last.error = "Network"
  /\ sentCount = 1
  /\ inflight = << >>
  /\ lastSentLandmarks = Null

\* ------------------------------------------------------------------ C9
\* C9: in the end-to-end scenario exactly one request has been sent after
\* the three ticks on the still hand, and exactly two after the fourth tick
\* on the moved hand, whatever the delay of the answers.
C9_EndToEndThrottle ==
  /\ ticksDone = 3 => sentCount = 1
  /\ ticksDone = 4 => sentCount = 2

\* ----------------------------------------------------------------- C10
\* C10: a commit of space appends one space, a commit of del removes the
\* last character (or leaves an empty text empty), a commit of any other
\* label appends exactly one character.
C10_TextEdit ==
  [][(last'.kind = "response" /\ last'.commit) =>
       CASE last'.prediction = "space" -> typed' = Append(typed, " ")
         [] last'.prediction = "del" ->
              typed' = IF typed = << >> THEN << >>
                       ELSE SubSeq(typed, 1, Len(typed) - 1)
         [] OTHER -> /\ Len(typed') = Len(typed) + 1
                     /\ SubSeq(typed', 1, Len(typed)) = typed]_vars

C12_InvalidNeverForwarded ==
  \A i \in 1 .. Len(inflight) :
    /\ inflight[i].flat # Null
    /\ \A k \in 1 .. Len(inflight[i].flat) : inflight[i].flat[k] # NaN

MaxRange(p) ==
  CHOOSE r \in 0 .. MaxCoord :
    /\ \E a \in 1 .. 3 : \E i, j \in 1 .. NumPoints :
         p[i][Axes[a]] - p[j][Axes[a]] = r
    /\ \A a \in 1 .. 3 : \A i, j \in 1 .. NumPoints :
         p[i][Axes[a]] - p[j][Axes[a]] <= r

\* element k of v is coordinate a of landmark i, less the wrist's, over r
IsCentredScaled(v, p, r) ==
  \A i \in 2 .. NumPoints : \A a \in 1 .. 3 :
    v[3 * (i - 2) + a] =
      [num |-> p[i][Axes[a]] - p[1][Axes[a]], den |-> r, root |-> FALSE]

C15_DegenerateScale ==
  (/\ features.error = "none"
   /\ \A i \in 1 .. NumPoints : mpResult[1][i] = mpResult[1][1]) =>
    /\ Len(features.vector) \in { 60, 65 }
    /\ \A k \in 1 .. Len(features.vector) :
         /\ features.vector[k].num = 0
         /\ features.vector[k].den = 1

\* the 65 features of a hand collapsed to one point away from the origin
C15_Witness ==
  /\ last.kind = "one_image_to_vector"
  /\ features.error = "none"
  /\ Len(features.vector) = 65
  /\ \A i \in 1 .. NumPoints : mpResult[1][i] = Point(1, 1, 1)
  /\ features.vector[1] = [num |-> 0, den |-> 1, root |-> FALSE]

\* ----------------------------------------------------------------- C16
\* C16: answers take effect in the order their requests were sent, so once
\* every request is answered the landmarks last sent are those of the most
\* recent request.  In the end-to-end scenario every answer is well formed
\* and the fourth tick always sends the moved hand, the most recent request
\* of the run: when nothing is pending after it, the landmarks last sent
\* are the moved hand's.
C16_DispatchOrder ==
  (ticksDone = 4 /\ inflight = << >>) =>
    lastSentLandmarks = flatten(MovedHand)

\* ----------------------------------------------------------------- C17
\* C17: the window holds back only the label accepted last: a confident
\* answer with any other label is committed however recently that label
\* was committed before, so A, another label, A can all be committed
\* within one window.
C17_WindowIsPerLastLabel ==
  [][(/\ last'.kind = "response"
      /\ last'.gate
      /\ last'.confidence >= CONF_THRESHOLD
      /\ last'.prediction \notin { "", Undefined }
      /\ last'.prediction # lastAccepted) =>
       /\ last'.commit
       /\ lastAccepted' = last'.prediction
       /\ lastAcceptTime' = now
       /\ typed' # typed \/ (last'.prediction = "del" /\ typed = << >>)]_vars

\* A, space, A were committed, the second A less than DEBOUNCE_MS after
\* the first (no answer comes before the first tick, at SEND_EVERY_MS)
C17_Witness ==
  /\ last.kind = "response"
  /\ last.commit
  /\ last.prediction = "A"
  /\ typed = << "A", " ", "A" >>
  /\ now - SEND_EVERY_MS < DEBOUNCE_MS

\* ----------------------------------------------------------------- C18
\* C18: an answer that handlePrediction rejects, for low confidence or as
\* a repeat inside the window, leaves the text, the last accepted label
\* and the time of the last acceptance as they were; the window is
\* therefore counted from the last commit, and a confident answer with
\* the label accepted last is committed once more than DEBOUNCE_MS have
\* passed since that commit, whatever repeats were rejected meanwhile.
C18_RejectionKeepsState ==
  [][last'.kind = "response" =>
       /\ (last'.gate /\ ~last'.commit) =>
            UNCHANGED << typed, lastAccepted, lastAcceptTime, lastCommit >>
       /\ (/\ last'.gate
           /\ last'.confidence >= CONF_THRESHOLD
           /\ last'.prediction = lastCommit.label
           /\ last'.prediction \notin { "", NullLabel }
           /\ now - lastCommit.time > DEBOUNCE_MS) => last'.commit]_vars

\* a repeat of the accepted label was rejected at least one timer period
\* after its commit, and the time of acceptance is still that of the
\* commit
C18_Witness ==
  /\ last.kind = "response"
  /\ last.gate
  /\ ~last.commit
  /\ last.confidence >= CONF_THRESHOLD
  /\ last.same
  /\ ~last.late
  /\ lastAccepted = last.prediction
  /\ lastAcceptTime = lastCommit.time
  /\ lastAcceptTime < now

\* ----------------------------------------------------------------- C19
\* MediaPipe's result holds no hand, or a hand with a non-finite coordinate
InvalidPose(hands) ==
  \/ Len(hands) = 0
  \/ \E k \in 1 .. NumPoints : NaN \in { hands[1][k].x, hands[1][k].y, hands[1][k].z }

C20_LatestSampleWins ==
  last.kind = "tick" =>
    /\ Len(mpResult) = 0 => ~last.sent
    /\ last.sent =>
         /\ Len(mpResult) > 0
         /\ inflight # << >>
         /\ \A k \in 1 .. NumPoints :
              LET flat == inflight[Len(inflight)].flat
              IN /\ flat[3 * k - 2] = mpResult[1][k].x
                 /\ flat[3 * k - 1] = mpResult[1][k].y
                 /\ flat[3 * k] = mpResult[1][k].z

\* a tick sent the moved hand of the latest result while the request with
\* the hand of an earlier result was still pending
C20_Witness ==
  /\ last.kind = "tick"
  /\ last.sent
  /\ Len(inflight) = 2
  /\ mpResult = << Uniform(THRESHOLD + 1) >>
  /\ inflight[1].flat = flatten(Uniform(0))
  /\ inflight[2].flat = lastFrameLandmarks
  /\ inflight[2].flat # inflight[1].flat

\* ----------------------------------------------------------------- C21
\* the pending calls once the i-th has ended
Without(q, i) == SubSeq(q, 1, i - 1) \o SubSeq(q, i + 1, Len(q))

C22_AbsentSampleNoOp ==
  [][(last'.kind = "tick" /\ lastFrameLandmarks = Null) =>
       /\ ~last'.sent
       /\ UNCHANGED << inflight, sentCount, lastSentLandmarks, lastAccepted,
                       lastAcceptTime, typed, lastFrameLandmarks >>]_vars

\* a tick found no landmarks although nothing had been sent before, and
\* left nothing pending
C22_Witness ==
  /\ last.kind = "tick"
  /\ ~last.sent
  /\ lastFrameLandmarks = Null
  /\ lastSentLandmarks = Null
  /\ inflight = << >>
  /\ sentCount = 0

\* ----------------------------------------------------------------- C23
\* C23: every answer that is received and parsed makes the landmarks of
\* its request the landmarks last sent, whether handlePrediction commits
\* the label or rejects it; a tick that then finds the latest landmarks
\* within THRESHOLD of them sends nothing.
C23_LastSentAfterAnyAnswer ==
  [][/\ (last'.kind = "response" /\ last'.gate) =>
          \E i \in 1 .. Len(inflight) :
            /\ inflight' = Without(inflight, i)
            /\ lastSentLandmarks' = inflight[i].flat
     /\ (/\ last'.kind = "tick"
         /\ lastFrameLandmarks # Null
         /\ lastSentLandmarks # Null
         /\ ~FartherThanThreshold(lastFrameLandmarks, lastSentLandmarks)) =>
          (~last'.sent /\ inflight' = inflight)]_vars

\* nothing was ever committed, yet the held hand counts as sent and a tick
\* has just declined to send it again
C23_Witness ==
  /\ last.kind = "tick"
  /\ ~last.sent
  /\ lastFrameLandmarks # Null
  /\ lastSentLandmarks = lastFrameLandmarks
  /\ lastAccepted = NullLabel
  /\ typed = << >>
  /\ inflight = << >>
====
